---- MODULE Spec2Model ----
(***************************************************************************)
(* Model of cmd/quant.go: the metrics-line parser (parseLine), the         *)
(* aggregator (quantify), the ranking (sort.Sort over ApiserverReqList),   *)
(* the request handler (quantReqHandler.ServeHTTP) and the side-fetch      *)
(* goroutine (uptimeAsync) with its unbuffered result channel.             *)
(*                                                                         *)
(* A Go string is a sequence of one-character strings, so that Split,      *)
(* HasPrefix, TrimSpace and ParseInt are computed, not assumed.            *)
(***************************************************************************)
EXTENDS Integers, Sequences, FiniteSets, TLC

\* ------------------------------------------------------------------------
\* Bounds of the model
\* ------------------------------------------------------------------------

\* the number of lines of a scraped metrics text
MaxLines == 4

\* the number of lines of the section of the reordering texts
MaxSectionLines == 3

\* the number of label tokens of the lines given to parseLine alone
MaxLabels == 3

\* the number of requests served at the same time
NumRequests == 2

\* the number of entries of the contexts list of a kubeconfig
MaxContexts == 2

\* the number of entries of the clusters list of a kubeconfig
MaxClusters == 2

\* ------------------------------------------------------------------------
\* package strings / strconv
\* ------------------------------------------------------------------------

Range(s) == {s[i] : i \in 1..Len(s)}

\* strings.HasPrefix(s, prefix)
HasPrefix(s, prefix) ==
    /\ Len(s) >= Len(prefix)
    /\ SubSeq(s, 1, Len(prefix)) = prefix

\* strings.Index(s, sep), 1-based; 0 when sep does not occur in s
Index(s, sep) ==
    LET hits == {i \in 1..(Len(s) - Len(sep) + 1) :
                    SubSeq(s, i, i + Len(sep) - 1) = sep}
    IN  IF hits = {} THEN 0 ELSE CHOOSE i \in hits : \A j \in hits : i <= j

\* strings.Split(s, sep) for a non-empty sep: the pieces between the
\* non-overlapping occurrences of sep, always at least one piece
RECURSIVE Split(_, _)
Split(s, sep) ==
    LET i == Index(s, sep)
    IN  IF i = 0
        THEN <<s>>
        ELSE <<SubSeq(s, 1, i - 1)>> \o Split(SubSeq(s, i + Len(sep), Len(s)), sep)

\* the white space strings.TrimSpace removes (of the characters modelled)
Space == {" ", "\t", "\r"}

\* strings.TrimSpace(s)
RECURSIVE TrimSpace(_)
TrimSpace(s) ==
    IF s = <<>> THEN s
    ELSE IF Head(s) \in Space THEN TrimSpace(Tail(s))
    ELSE IF s[Len(s)] \in Space THEN TrimSpace(SubSeq(s, 1, Len(s) - 1))
    ELSE s

Digits == <<"0", "1", "2", "3", "4", "5", "6", "7", "8", "9">>

DigitVal(c) == (CHOOSE i \in 1..10 : Digits[i] = c) - 1

\* the largest int32, and the cutoff strconv uses before multiplying by ten
MaxInt32 == 2147483647

\* the magnitude of a digit string, or -1 once it exceeds lim (lim <= MaxInt32):
\* strconv.ParseUint's loop, which checks the range before each step
RECURSIVE Magnitude(_, _, _)
Magnitude(ds, acc, lim) ==
    IF ds = <<>> THEN acc
    ELSE LET d == DigitVal(Head(ds))
         IN  IF acc > (lim - d) \div 10
             THEN -1
             ELSE Magnitude(Tail(ds), acc * 10 + d, lim)

\* strconv.ParseInt(s, 10, 32): an optional sign, then one or more decimal
\* digits, the value within int32; [ok |-> FALSE] stands for a non-nil error.
\* (The one value -2^31 is reported out of range here: its magnitude is not
\* representable in the checker's integers.)
ParseInt32(s) ==
    LET neg  == s # <<>> /\ Head(s) = "-"
        body == IF s # <<>> /\ Head(s) \in {"+", "-"} THEN Tail(s) ELSE s
    IN  IF body = <<>> \/ ~(Range(body) \subseteq Range(Digits))
        THEN [ok |-> FALSE, val |-> 0, err |-> "invalid syntax"]
        ELSE LET m == Magnitude(body, 0, MaxInt32)
             IN  IF m < 0
                 THEN [ok |-> FALSE, val |-> 0, err |-> "value out of range"]
                 ELSE [ok |-> TRUE, val |-> IF neg THEN 0 - m ELSE m, err |-> ""]

\* ------------------------------------------------------------------------
\* ApiserverReq and parseLine
\* ------------------------------------------------------------------------

\* &ApiserverReq{}: the zero value (nil slices are empty sequences)
NewApiserverReq ==
    [clientName |-> <<>>, totalReqCount |-> 0, resources |-> <<>>, verbs |-> <<>>]

\* the result of parseLine when it returns (nil, err)
ParseFail(e) == [isNil |-> TRUE, req |-> NewApiserverReq, err |-> e]

\* the count parseLine reads: only when the line holds a '}' is the text after
\* the first '}' (up to the next one) trimmed and parsed
parseCount(objEnd) ==
    IF Len(objEnd) >= 2
    THEN ParseInt32(TrimSpace(objEnd[2]))
    ELSE [ok |-> TRUE, val |-> 0, err |-> ""]

\* one iteration of parseLine's loop over the fields
parseField(req, field) ==
    LET segs == Split(field, <<"=">>)
    IN  IF Len(segs) < 2 THEN req
        ELSE LET key == segs[1]
                 val == segs[2]
             IN  IF key = <<"c", "l", "i", "e", "n", "t">>
                 THEN [req EXCEPT !.clientName = val]
                 ELSE IF key = <<"r", "e", "s", "o", "u", "r", "c", "e">>
                 THEN [req EXCEPT !.resources = <<val>>]
                 ELSE IF key = <<"v", "e", "r", "b">>
                 THEN [req EXCEPT !.verbs = <<val>>]
                 ELSE req

RECURSIVE parseFields(_, _)
parseFields(req, fields) ==
    IF fields = <<>> THEN req
    ELSE parseFields(parseField(req, Head(fields)), Tail(fields))

\* parseLine(line): [isNil, req, err]
parseLine(line) ==
    LET objEnd == Split(line, <<"}">>)
        count  == parseCount(objEnd)
    IN  IF Len(objEnd) = 0
        THEN ParseFail("missing metrics object delimiter '}'")
        ELSE IF ~count.ok
        THEN ParseFail(count.err)
        ELSE LET objBegin == Split(objEnd[1], <<"{">>)
             IN  IF Len(objBegin) < 2
                 THEN ParseFail("missing metrics object delimiter '{'")
                 ELSE [isNil |-> FALSE,
                       req   |-> parseFields(
                                    [NewApiserverReq EXCEPT !.totalReqCount = count.val],
                                    Split(objBegin[2], <<",">>)),
                       err   |-> ""]

\* ------------------------------------------------------------------------
\* quantify
\* ------------------------------------------------------------------------

HelpPrefix == <<"#", " ", "H", "E", "L", "P">>

TypePrefix == <<"#", " ", "T", "Y", "P", "E">>

\* "# HELP apiserver_request_count"
TargetHelpPrefix ==
    HelpPrefix \o <<" ", "a", "p", "i", "s", "e", "r", "v", "e", "r", "_",
                    "r", "e", "q", "u", "e", "s", "t", "_",
                    "c", "o", "u", "n", "t">>

\* the locals of quantify before its loop: reqs is the map (a function from
\* client names to requests), stopped tells that the loop was left by break
QuantifyStart == [reqs |-> <<>>, shouldRecord |-> FALSE, stopped |-> FALSE]

\* helpLine with continue in place of break: a later "# HELP" line only
\* switches recording off or on again
helpLineContinue(st, line) ==
    [st EXCEPT !.shouldRecord = HasPrefix(line, TargetHelpPrefix)]

\* a "# HELP" line: break when recording, else decide whether to record
helpLine(st, line) ==
    IF st.shouldRecord
    THEN [st EXCEPT !.stopped = TRUE]
    ELSE [st EXCEPT !.shouldRecord = HasPrefix(line, TargetHelpPrefix)]

\* isMalformed without the test of the client name
isMalformedNilOnly(p) == p.isNil

\* the test that makes quantify log a line and skip it
isMalformed(p) == p.isNil \/ Len(p.req.clientName) = 0

\* mergeReq with the new labels put in front of the ones already seen
mergeReqPrepend(seenReq, req) ==
    [seenReq EXCEPT !.totalReqCount = seenReq.totalReqCount + req.totalReqCount,
                    !.verbs = req.verbs \o seenReq.verbs,
                    !.resources = req.resources \o seenReq.resources]

\* mergeReq with the count assigned instead of added
mergeReqAssign(seenReq, req) ==
    [seenReq EXCEPT !.totalReqCount = req.totalReqCount,
                    !.verbs = seenReq.verbs \o req.verbs,
                    !.resources = seenReq.resources \o req.resources]

\* the update of an entry already present in reqs
mergeReq(seenReq, req) ==
    [seenReq EXCEPT !.totalReqCount = seenReq.totalReqCount + req.totalReqCount,
                    !.verbs = seenReq.verbs \o req.verbs,
                    !.resources = seenReq.resources \o req.resources]

\* recordReq that keeps the first request of a client and drops the later ones
recordReqKeepFirst(reqs, req) ==
    IF req.clientName \in DOMAIN reqs
    THEN reqs
    ELSE (req.clientName :> req) @@ reqs

\* the part of the loop body that stores a parsed request in reqs
recordReq(reqs, req) ==
    IF req.clientName \in DOMAIN reqs
    THEN [reqs EXCEPT ![req.clientName] = mergeReq(reqs[req.clientName], req)]
    ELSE (req.clientName :> req) @@ reqs

\* one iteration of quantify's loop
quantifyLine(st, line) ==
    IF HasPrefix(line, TypePrefix)
    THEN st
    ELSE IF HasPrefix(line, HelpPrefix)
    THEN helpLine(st, line)
    ELSE IF ~st.shouldRecord
    THEN st
    ELSE LET p == parseLine(line)
         IN  IF isMalformed(p)
             THEN st
             ELSE [st EXCEPT !.reqs = recordReq(st.reqs, p.req)]

\* the loop of quantify over the lines from position i on
RECURSIVE quantifyFrom(_, _, _)
quantifyFrom(st, ls, i) ==
    IF i > Len(ls) \/ st.stopped THEN st
    ELSE quantifyFrom(quantifyLine(st, ls[i]), ls, i + 1)

NewLine == <<"\n">>

\* the map quantify has built when its loop ends
quantifyMap(text) == quantifyFrom(QuantifyStart, Split(text, NewLine), 1).reqs

\* the permutations of a sequence
SeqPermutations(l) ==
    LET n == Len(l)
        bij == {f \in [1..n -> 1..n] : \A i, j \in 1..n : f[i] = f[j] => i = j}
    IN  {[i \in 1..n |-> l[f[i]]] : f \in bij}

\* the lists quantify may return for a map: range over a Go map visits the
\* entries in an unspecified order
mapOrders(reqs) ==
    LET names == DOMAIN reqs
        n == Cardinality(names)
        enum == {f \in [1..n -> names] : \A i, j \in 1..n : f[i] = f[j] => i = j}
    IN  {[i \in 1..n |-> reqs[f[i]]] : f \in enum}

\* Less with the comparison turned round
LessAscending(l, i, j) == l[i].totalReqCount < l[j].totalReqCount

\* ApiserverReqList.Less
Less(l, i, j) == l[i].totalReqCount > l[j].totalReqCount

\* what sort.Sort may leave in place of l: a permutation of l in which no
\* element is Less than an earlier one (sort.Sort is not stable)
sortOutcomes(l) ==
    {p \in SeqPermutations(l) : \A i, j \in 1..Len(p) : i < j => ~Less(p, j, i)}

\* quantifiedData := quantify(data); sort.Sort(quantifiedData)
rankedOutcomes(text) ==
    UNION {sortOutcomes(l) : l \in mapOrders(quantifyMap(text))}

\* ------------------------------------------------------------------------
\* Inputs: metrics texts
\* ------------------------------------------------------------------------

Client == <<"c", "l", "i", "e", "n", "t", "=">>

Resource == <<"r", "e", "s", "o", "u", "r", "c", "e", "=">>

Verb == <<"v", "e", "r", "b", "=">>

Comma == <<",">>

\* # HELP apiserver_request_count n
LineHelpTarget == TargetHelpPrefix \o <<" ", "n">>

\* # HELP x
LineHelpOther == HelpPrefix \o <<" ", "x">>

\* # TYPE x
LineType == TypePrefix \o <<" ", "x">>

\* m{client=a,resource=p,verb=g} 3
LineA3 ==
    <<"m", "{">> \o Client \o <<"a">> \o Comma \o Resource \o <<"p">> \o Comma
        \o Verb \o <<"g">> \o <<"}", " ", "3">>

\* m{verb=l,client=a,resource=n} 2
LineA2 ==
    <<"m", "{">> \o Verb \o <<"l">> \o Comma \o Client \o <<"a">> \o Comma
        \o Resource \o <<"n">> \o <<"}", " ", "2">>

\* m{client=b,k=v} 3
LineB3 == <<"m", "{">> \o Client \o <<"b">> \o Comma \o <<"k", "=", "v", "}", " ", "3">>

\* m{verb=g} 4 : no client label
LineNoClient == <<"m", "{">> \o Verb \o <<"g">> \o <<"}", " ", "4">>

\* m{client=b} x : the count is no integer
LineBadCount == <<"m", "{">> \o Client \o <<"b">> \o <<"}", " ", "x">>

\* m{client=c : no '}' at all
LineNoClose == <<"m", "{">> \o Client \o <<"c">>

\* m{client=c} : nothing after the '}'
LineNoCount == <<"m", "{">> \o Client \o <<"c">> \o <<"}">>

LinePool ==
    {LineHelpTarget, LineHelpOther, LineType, LineA3, LineA2, LineB3,
     LineNoClient, LineBadCount, LineNoClose, LineNoCount}

\* the text of the given lines, each ended by a newline
RECURSIVE JoinLines(_)
JoinLines(ls) ==
    IF ls = <<>> THEN <<>> ELSE Head(ls) \o NewLine \o JoinLines(Tail(ls))

\* the metrics texts of the model: MaxLines lines of the pool
Texts == {JoinLines(ls) : ls \in [1..MaxLines -> LinePool]}

\* the metrics texts the endpoint serves to the handler in Spec
ServedTexts ==
    {JoinLines(<<LineHelpTarget, LineA3, LineB3, LineA2>>),
     JoinLines(<<LineHelpTarget, LineNoClient, LineA3, LineB3>>),
     JoinLines(<<LineType, LineA3>>)}

\* ------------------------------------------------------------------------
\* uptimeAsync
\* ------------------------------------------------------------------------

\* *uptimeResult; err = "" stands for a nil error
UptimeErr(e) == [err |-> e, result |-> ""]

UptimeOk(r) == [err |-> "", result |-> r]

NoUptime == [err |-> "", result |-> ""]

\* a nil and a non-nil *kubeconfigContextInfo
NilContextInfo == [isNil |-> TRUE, Cluster |-> <<>>]

ContextInfo(c) == [isNil |-> FALSE, Cluster |-> c]

\* a nil and a non-nil *kubeconfigClusterInfo
NilClusterInfo == [isNil |-> TRUE, Server |-> <<>>]

ClusterInfo(srv) == [isNil |-> FALSE, Server |-> srv]

\* the kubeconfig before yaml.Unmarshal fills it (and once it is dead)
EmptyKubeconfig == [CurrentContext |-> <<>>, Contexts |-> <<>>, Clusters |-> <<>>]

\* the first context whose Name is want: [found, ctx]
RECURSIVE findContext(_, _)
findContext(contexts, want) ==
    IF contexts = <<>>
    THEN [found |-> FALSE, ctx |-> [Name |-> <<>>, Context |-> NilContextInfo]]
    ELSE IF Head(contexts).Name = want
    THEN [found |-> TRUE, ctx |-> Head(contexts)]
    ELSE findContext(Tail(contexts), want)

\* the loop over config.Clusters: each iteration reads context.Context.Cluster,
\* a nil dereference when context.Context is nil; at the first cluster of that
\* name it reads cluster.Cluster.Server, a nil dereference when cluster.Cluster
\* is nil, and breaks
RECURSIVE findServer(_, _)
findServer(clusters, context) ==
    IF clusters = <<>> THEN [panic |-> FALSE, clusterName |-> <<>>]
    ELSE IF context.Context.isNil THEN [panic |-> TRUE, clusterName |-> <<>>]
    ELSE IF Head(clusters).Name = context.Context.Cluster
    THEN IF Head(clusters).Cluster.isNil
         THEN [panic |-> TRUE, clusterName |-> <<>>]
         ELSE [panic |-> FALSE, clusterName |-> Head(clusters).Cluster.Server]
    ELSE findServer(Tail(clusters), context)

LookupErr(e) == [kind |-> "err", err |-> e, hostName |-> <<>>]

LookupPanic == [kind |-> "panic", err |-> "", hostName |-> <<>>]

\* the host name cut out of the server URL
hostOf(clusterName) ==
    LET hostSegs == Split(clusterName, <<":", "/", "/">>)
    IN  IF Len(hostSegs) < 2
        THEN LookupErr("malformed cluster hostname")
        ELSE LET segs == Split(hostSegs[2], <<":">>)
             IN  IF Len(segs) = 0
                 THEN LookupErr("malformed cluster hostname")
                 ELSE [kind |-> "host", err |-> "", hostName |-> segs[1]]

\* uptimeAsync from the checks of the unmarshalled config to hostName
lookupHost(config) ==
    IF Len(config.CurrentContext) = 0
    THEN LookupErr("invalid kubeconfig: empty current-context field")
    ELSE IF Len(config.Contexts) = 0
    THEN LookupErr("invalid kubeconfig: no contexts found")
    ELSE IF Len(config.Clusters) = 0
    THEN LookupErr("invalid kubeconfig: no clusters found")
    ELSE LET c == findContext(config.Contexts, config.CurrentContext)
         IN  IF ~c.found
             THEN LookupErr("invalid kubeconfig: unable to find current context")
             ELSE LET srv == findServer(config.Clusters, c.ctx)
                  IN  IF srv.panic
                      THEN LookupPanic
                      ELSE IF Len(srv.clusterName) = 0
                      THEN LookupErr("invalid kubeconfig: unable to find current cluster")
                      ELSE hostOf(srv.clusterName)

\* the result uptimeAsync sends after cmd.Run()
commandResult(runFailed, stdout, stderr) ==
    IF runFailed THEN UptimeErr("ssh error")
    ELSE IF stdout # "" THEN UptimeOk(stdout)
    ELSE IF stderr # "" THEN UptimeErr("error: stderr")
    ELSE UptimeErr("error: no output from command")

\* ------------------------------------------------------------------------
\* Inputs: kubeconfig files
\* ------------------------------------------------------------------------

SeqsUpTo(S, n) == UNION {[1..k -> S] : k \in 0..n}

ContextEntries ==
    {[Name |-> <<"a">>, Context |-> NilContextInfo],
     [Name |-> <<"a">>, Context |-> ContextInfo(<<"c">>)],
     [Name |-> <<"b">>, Context |-> ContextInfo(<<"c">>)]}

\* "", h:1, s://h:1, s://:1
Servers ==
    {<<>>, <<"h", ":", "1">>, <<"s", ":", "/", "/", "h", ":", "1">>,
     <<"s", ":", "/", "/", ":", "1">>}

ClusterEntries ==
    {[Name |-> <<"c">>, Cluster |-> NilClusterInfo]}
    \cup {[Name |-> <<"c">>, Cluster |-> ClusterInfo(srv)] : srv \in Servers}
    \cup {[Name |-> <<"d">>, Cluster |-> ClusterInfo(<<"s", ":", "/", "/", "g", ":", "1">>)]}

Kubeconfigs ==
    [CurrentContext : {<<>>, <<"a">>},
     Contexts : SeqsUpTo(ContextEntries, MaxContexts),
     Clusters : SeqsUpTo(ClusterEntries, MaxClusters)]

\* ------------------------------------------------------------------------
\* The response
\* ------------------------------------------------------------------------

ResponseLine(kind, text) == [kind |-> kind, text |-> text, req |-> NewApiserverReq]

\* fmt.Fprintf(w, "%s\n", req.String()) for each element of the list
RECURSIVE clientSections(_)
clientSections(l) ==
    IF l = <<>> THEN <<>>
    ELSE <<[kind |-> "client", text |-> "", req |-> Head(l)]>> \o clientSections(Tail(l))

\* the line the select writes for a received result
uptimeLine(u) ==
    IF u.err # ""
    THEN ResponseLine("uptimeError", u.err)
    ELSE ResponseLine("uptime", u.result)

StatusInternalServerError == 500

StatusPartialContent == 206

VARIABLES
    data,          \* quantify: the text given to it
    lines,         \* quantify: strings.Split(string(data), "\n")
    idx,           \* quantify: the number of lines read
    q,             \* quantify: reqs, shouldRecord and how the loop stands
    recordedIdx,   \* history: the values of idx at which the line read changed reqs
    qpc,           \* quantify: "split", "loop", "collect", "done"
    reqsList,      \* quantify: the list it returns
    runs,          \* the ranked lists of successive runs on the same text
    hpc,           \* ServeHTTP: "start", "get", "read", "select", "render", "done"
    fetchErr,      \* ServeHTTP: err of the metrics fetch: "", "get", "read"
    status,        \* ServeHTTP: the status written, 0 before WriteHeader
    response,      \* ServeHTTP: the lines written to w
    quantifiedData, \* ServeHTTP: the sorted list
    selected,      \* ServeHTTP: the case the select took: "", "receive", "timeout"
    received,      \* ServeHTTP: the number of receives from uptimeResultChan
    upc,           \* uptimeAsync: "idle", "read", "lookup", "run", "send", "done", "panic"
    config,        \* uptimeAsync: the unmarshalled kubeconfig
    hostName,      \* uptimeAsync: the host given to ssh
    uptime,        \* uptimeAsync: the result it sends
    sends,         \* uptimeAsync: the number of send statements it has reached
    shuffled,      \* reordering: the text with the lines of its section permuted
    firstReqs,     \* reordering: the map quantify builds from data
    secondReqs,    \* reordering: the map quantify builds from shuffled
    opc,           \* reordering: "idle", "first", "shuffle", "second", "done"
    labels,        \* parseLine: the label tokens of the line, as <<key, value>> pairs
    counter,       \* parseLine: the digits after the '}' of the line
    line,          \* parseLine: the line given to it
    parsed,        \* parseLine: what it returns
    lineReqs,      \* parseLine: the map quantify builds from a section of that line
    ppc,           \* parseLine: "idle", "parse", "quantify", "done"
    handlers,      \* concurrent requests: the ServeHTTP call of each request
    routines,      \* concurrent requests: the uptimeAsync goroutine of each request
    nextChan       \* concurrent requests: the number of channels made so far

qvars == <<data, lines, idx, q, recordedIdx, qpc, reqsList>>

hvars == <<hpc, fetchErr, status, response, quantifiedData, selected, received>>

uvars == <<upc, config, hostName, uptime, sends>>

ovars == <<shuffled, firstReqs, secondReqs, opc>>

pvars == <<labels, counter, line, parsed, lineReqs, ppc>>

mvars == <<handlers, routines, nextChan>>

xvars == <<ovars, pvars, mvars>>

vars == <<qvars, runs, xvars, hvars, uvars>>

\* quantify is not running
QIdle ==
    /\ lines = <<>>
    /\ idx = 0
    /\ q = QuantifyStart
    /\ recordedIdx = {}
    /\ qpc = "idle"
    /\ reqsList = <<>>

\* the handler at pc, nothing written yet, uptimeAsync not started
HState(pc) ==
    /\ hpc = pc
    /\ fetchErr = ""
    /\ status = 0
    /\ response = <<>>
    /\ quantifiedData = <<>>
    /\ selected = ""
    /\ received = 0
    /\ upc = "idle"
    /\ config = EmptyKubeconfig
    /\ hostName = <<>>
    /\ uptime = NoUptime
    /\ sends = 0

\* no request is being served
HIdle == HState("idle")

\* no reordering is being compared
OIdle ==
    /\ shuffled = <<>>
    /\ firstReqs = <<>>
    /\ secondReqs = <<>>
    /\ opc = "idle"

\* parseLine is not being applied
PIdle ==
    /\ labels = <<>>
    /\ counter = <<>>
    /\ line = <<>>
    /\ parsed = ParseFail("")
    /\ lineReqs = <<>>
    /\ ppc = "idle"

\* no concurrent requests
MIdle ==
    /\ handlers = <<>>
    /\ routines = <<>>
    /\ nextChan = 0

\* ------------------------------------------------------------------------
\* quantify, one loop iteration at a time
\* ------------------------------------------------------------------------

QInit ==
    /\ data \in Texts
    /\ lines = <<>>
    /\ idx = 0
    /\ q = QuantifyStart
    /\ recordedIdx = {}
    /\ qpc = "split"
    /\ reqsList = <<>>
    /\ runs = <<>>
    /\ OIdle
    /\ PIdle
    /\ MIdle
    /\ HIdle

\* strings.Split(string(data), "\n")
QSplit ==
    /\ qpc = "split"
    /\ lines' = Split(data, NewLine)
    /\ qpc' = "loop"
    /\ UNCHANGED <<data, idx, q, recordedIdx, reqsList, runs, xvars, hvars, uvars>>

\* one iteration of the loop; a break leaves the loop
QLine ==
    /\ qpc = "loop"
    /\ idx < Len(lines)
    /\ idx' = idx + 1
    /\ q' = quantifyLine(q, lines[idx'])
    /\ recordedIdx' = IF q'.reqs # q.reqs THEN recordedIdx \cup {idx'} ELSE recordedIdx
    /\ qpc' = IF q'.stopped THEN "collect" ELSE "loop"
    /\ UNCHANGED <<data, lines, reqsList, runs, xvars, hvars, uvars>>

\* the range is exhausted
QLoopEnd ==
    /\ qpc = "loop"
    /\ idx = Len(lines)
    /\ qpc' = "collect"
    /\ UNCHANGED <<data, lines, idx, q, recordedIdx, reqsList, runs, xvars, hvars, uvars>>

\* the map's values are appended to reqsList, which is returned
QCollect ==
    /\ qpc = "collect"
    /\ reqsList' \in mapOrders(q.reqs)
    /\ qpc' = "done"
    /\ UNCHANGED <<data, lines, idx, q, recordedIdx, runs, xvars, hvars, uvars>>

QNext == QSplit \/ QLine \/ QLoopEnd \/ QCollect

SpecQ == QInit /\ [][QNext]_vars

\* ------------------------------------------------------------------------
\* Properties of quantify (checked under SpecQ)
\* ------------------------------------------------------------------------

Min(S) == CHOOSE x \in S : \A y \in S : x <= y

IsHelp(l) == HasPrefix(l, HelpPrefix)

IsTargetHelp(l) == HasPrefix(l, TargetHelpPrefix)

\* a line that is neither a "# TYPE" nor a "# HELP" line
IsDataLine(l) == ~HasPrefix(l, TypePrefix) /\ ~IsHelp(l)

\* the position of the first "# HELP apiserver_request_count" line
SectionStart(ls) ==
    Min({i \in 1..Len(ls) : IsTargetHelp(ls[i])} \cup {Len(ls) + 1})

\* the position of the first "# HELP" line after it
SectionEnd(ls) ==
    Min({j \in 1..Len(ls) : j > SectionStart(ls) /\ IsHelp(ls[j])} \cup {Len(ls) + 1})

InSection(ls, i) == SectionStart(ls) < i /\ i < SectionEnd(ls)

\* the line parses and carries a client name
IsValidRecord(l) == ~parseLine(l).isNil /\ parseLine(l).req.clientName # <<>>

\* the sum of totalReqCount over the entries of a map
RECURSIVE SumOver(_, _)
SumOver(reqs, names) ==
    IF names = {} THEN 0
    ELSE LET c == CHOOSE c \in names : TRUE
         IN  reqs[c].totalReqCount + SumOver(reqs, names \ {c})

SumTotals(reqs) == SumOver(reqs, DOMAIN reqs)

\* the sum of totalReqCount over a list
RECURSIVE SumList(_)
SumList(l) == IF l = <<>> THEN 0 ELSE Head(l).totalReqCount + SumList(Tail(l))

\* the counter of a line between positions s and e that is a valid data line,
\* 0 for any other line
ValidCounter(l, i, s, e) ==
    IF s < i /\ i < e /\ IsDataLine(l)
    THEN LET p == parseLine(l)
         IN  IF ~p.isNil /\ p.req.clientName # <<>> THEN p.req.totalReqCount ELSE 0
    ELSE 0

RECURSIVE SumCounters(_, _, _, _)
SumCounters(ls, n, s, e) ==
    IF n = 0 THEN 0
    ELSE SumCounters(ls, n - 1, s, e) + ValidCounter(ls[n], n, s, e)

\* the sum of the counters of the valid data lines of the section among the
\* first n lines
SumValidCounters(ls, n) == SumCounters(ls, n, SectionStart(ls), SectionEnd(ls))

\* C4: only lines after the first target "# HELP" line and before the first
\* "# HELP" line that follows it ever change reqs: nothing before the section,
\* and nothing after its end, contributes to a total, a resources list or a
\* verbs list, whatever follows the end of the section.
C4_OnlySectionLinesContribute ==
    recordedIdx \subseteq (SectionStart(lines) + 1)..(SectionEnd(lines) - 1)

\* C4 witness: the scan recorded a line of the section, left the loop at the
\* "# HELP" line ending it, and a valid data line stands after that line.
C4_Witness ==
    /\ qpc = "done"
    /\ q.stopped
    /\ recordedIdx # {}
    /\ \E k \in (SectionEnd(lines) + 1)..Len(lines) :
          IsDataLine(lines[k]) /\ IsValidRecord(lines[k])

\* C5: after every prefix of the scan, the totals of the accumulators built so
\* far sum to the counters of the valid data lines of the section read so far;
\* the list quantify returns sums to the counters of all of them.
C5_TotalsSumToValidCounters ==
    /\ SumTotals(q.reqs) = SumValidCounters(lines, idx)
    /\ qpc = "done" => SumList(reqsList) = SumValidCounters(lines, Len(lines))

\* C5 witness: quantify returned two clients or more, one of them built from
\* several lines.
C5_Witness ==
    /\ qpc = "done"
    /\ Len(reqsList) >= 2
    /\ Cardinality(recordedIdx) > Len(reqsList)

\* the position of the last '}' of a line, 0 when it has none
LastClose(l) ==
    IF \A i \in 1..Len(l) : l[i] # "}" THEN 0
    ELSE CHOOSE i \in 1..Len(l) : l[i] = "}" /\ \A j \in (i + 1)..Len(l) : l[j] # "}"

\* a base-10 integer: an optional sign and one digit or more
IsDecimal(s) ==
    LET body == IF s # <<>> /\ Head(s) \in {"+", "-"} THEN Tail(s) ELSE s
    IN  body # <<>> /\ Range(body) \subseteq Range(Digits)

\* the counter of the line is absent (no '}', or nothing after it) or is no
\* base-10 integer
CounterAbsentOrBad(l) ==
    \/ LastClose(l) = 0
    \/ ~IsDecimal(TrimSpace(SubSeq(l, LastClose(l) + 1, Len(l))))

\* C7 (as claimed): for every data line of the section read so far whose
\* counter is absent or is no base-10 integer, parseLine fails and the line
\* changes no entry of reqs.
C7_BadCounterRejected ==
    \A i \in 1..idx :
        (InSection(lines, i) /\ IsDataLine(lines[i]) /\ CounterAbsentOrBad(lines[i]))
            => (parseLine(lines[i]).isNil /\ i \notin recordedIdx)

\* the sequence without its i-th element
RemoveAt(ls, i) == SubSeq(ls, 1, i - 1) \o SubSeq(ls, i + 1, Len(ls))

\* C8: once the loop has ended, every data line of the section that fails
\* parsing or has no client name has changed no entry, and the map is the one
\* quantify builds for the same lines without that line.
C8_InvalidLineSkipped ==
    qpc \in {"collect", "done"} =>
        \A i \in (SectionStart(lines) + 1)..(SectionEnd(lines) - 1) :
            (IsDataLine(lines[i]) /\ ~IsValidRecord(lines[i]))
                => /\ i \notin recordedIdx
                   /\ q.reqs = quantifyFrom(QuantifyStart, RemoveAt(lines, i), 1).reqs

\* C8 witness: the scan is over, an invalid data line stands in the section
\* between two lines that were recorded.
C8_Witness ==
    /\ qpc = "done"
    /\ \E h, i, j \in 1..Len(lines) :
          /\ h < i /\ i < j
          /\ h \in recordedIdx /\ j \in recordedIdx
          /\ InSection(lines, i) /\ IsDataLine(lines[i]) /\ ~IsValidRecord(lines[i])

\* ------------------------------------------------------------------------
\* Two runs of quantify and sort.Sort on the same text
\* ------------------------------------------------------------------------

RInit ==
    /\ data \in Texts
    /\ QIdle
    /\ runs = <<>>
    /\ OIdle
    /\ PIdle
    /\ MIdle
    /\ HIdle

\* quantifiedData := quantify(data); sort.Sort(quantifiedData)
RankRun ==
    /\ Len(runs) < 2
    /\ \E ranked \in rankedOutcomes(data) : runs' = Append(runs, ranked)
    /\ UNCHANGED <<qvars, xvars, hvars, uvars>>

SpecRank == RInit /\ [][RankRun]_vars

\* ------------------------------------------------------------------------
\* One request: ServeHTTP and the uptimeAsync goroutine it starts
\* ------------------------------------------------------------------------

Init ==
    /\ data = <<>>
    /\ QIdle
    /\ runs = <<>>
    /\ OIdle
    /\ PIdle
    /\ MIdle
    /\ HState("start")

\* a nil dereference in the goroutine ends the whole process
crashed == upc = "panic"

\* make(chan *uptimeResult); go uptimeAsync(...)
ServeLaunch ==
    /\ hpc = "start"
    /\ hpc' = "get"
    /\ upc' = "read"
    /\ UNCHANGED <<qvars, runs, xvars, fetchErr, status, response, quantifiedData, selected,
                   received, config, hostName, uptime, sends>>

\* the reply to a failed fetch: status 500 and an error line, then return
fetchFailed(e) ==
    /\ fetchErr' = e
    /\ status' = StatusInternalServerError
    /\ response' = Append(response, ResponseLine("error", e))
    /\ hpc' = "done"
    /\ UNCHANGED <<qvars, runs, xvars, quantifiedData, selected, received, uvars>>

\* http.Get
ServeGet ==
    /\ hpc = "get"
    /\ ~crashed
    /\ \/ fetchFailed("get")
       \/ /\ hpc' = "read"
          /\ UNCHANGED <<qvars, runs, xvars, fetchErr, status, response, quantifiedData,
                         selected, received, uvars>>

\* ioutil.ReadAll, WriteHeader, quantify, sort.Sort and the uptime header line
ServeReadBody ==
    /\ hpc = "read"
    /\ ~crashed
    /\ \/ fetchFailed("read")
       \/ \E text \in ServedTexts :
            /\ data' = text
            /\ status' = StatusPartialContent
            /\ quantifiedData' \in rankedOutcomes(text)
            /\ response' = Append(response, ResponseLine("header", "Master node uptime"))
            /\ hpc' = "select"
            /\ UNCHANGED <<lines, idx, q, recordedIdx, qpc, reqsList, runs, xvars, fetchErr,
                           selected, received, uvars>>

\* afterReceive with return in place of break in the error branch
afterReceiveReturn(u) == IF u.err # "" THEN "done" ELSE "render"

\* where the handler goes on after the receive case of the select: both the
\* break of the error branch and the end of the case lead to the flush
afterReceive(u) == "render"

\* the receive case of the select, which is also the completion of the send
\* of uptimeAsync on the unbuffered channel, after which uptimeAsync returns
ServeReceive ==
    /\ hpc = "select"
    /\ upc = "send"
    /\ response' = Append(response, uptimeLine(uptime))
    /\ selected' = "receive"
    /\ received' = received + 1
    /\ hpc' = afterReceive(uptime)
    /\ upc' = "done"
    /\ UNCHANGED <<qvars, runs, xvars, fetchErr, status, quantifiedData, config, hostName,
                   uptime, sends>>

\* the time.After case of the select: taken when no sender has arrived
ServeTimeout ==
    /\ hpc = "select"
    /\ upc # "send"
    /\ ~crashed
    /\ response' = Append(response, ResponseLine("timeout", "timed out fetching uptime information"))
    /\ selected' = "timeout"
    /\ hpc' = "render"
    /\ UNCHANGED <<qvars, runs, xvars, fetchErr, status, quantifiedData, received, uvars>>

\* ServeRender with a second receive: a late result is still taken and written
ServeRenderDrain ==
    /\ hpc = "render"
    /\ ~crashed
    /\ IF upc = "send" /\ selected = "timeout"
       THEN /\ response' = response \o <<uptimeLine(uptime), ResponseLine("blank", "")>>
                               \o clientSections(quantifiedData)
            /\ received' = received + 1
            /\ upc' = "done"
       ELSE /\ response' = response \o <<ResponseLine("blank", "")>>
                               \o clientSections(quantifiedData)
            /\ UNCHANGED <<received, upc>>
    /\ hpc' = "done"
    /\ UNCHANGED <<qvars, runs, xvars, fetchErr, status, quantifiedData, selected, config,
                   hostName, uptime, sends>>

\* the flush, the blank line and the client sections; then ServeHTTP returns
ServeRender ==
    /\ hpc = "render"
    /\ ~crashed
    /\ response' = response \o <<ResponseLine("blank", "")>> \o clientSections(quantifiedData)
    /\ hpc' = "done"
    /\ UNCHANGED <<qvars, runs, xvars, fetchErr, status, quantifiedData, selected, received,
                   uvars>>

\* uptimeAsync reaches a send statement with result u
sendResult(u) ==
    /\ uptime' = u
    /\ sends' = sends + 1
    /\ upc' = "send"

\* ioutil.ReadFile and yaml.Unmarshal
UptimeReadConfig ==
    /\ upc = "read"
    /\ \/ /\ sendResult(UptimeErr("read error"))
          /\ UNCHANGED <<config, hostName>>
       \/ /\ sendResult(UptimeErr("error: unable to unmarshal provided KUBECONFIG"))
          /\ UNCHANGED <<config, hostName>>
       \/ /\ config' \in Kubeconfigs
          /\ upc' = "lookup"
          /\ UNCHANGED <<hostName, uptime, sends>>
    /\ UNCHANGED <<qvars, runs, xvars, hvars>>

\* the checks of the config and the search of the server; config is not read
\* again afterwards and is cleared
UptimeLookup ==
    /\ upc = "lookup"
    /\ LET r == lookupHost(config)
       IN  \/ /\ r.kind = "err"
              /\ sendResult(UptimeErr(r.err))
              /\ UNCHANGED hostName
           \/ /\ r.kind = "panic"
              /\ upc' = "panic"
              /\ UNCHANGED <<hostName, uptime, sends>>
           \/ /\ r.kind = "host"
              /\ hostName' = r.hostName
              /\ upc' = "run"
              /\ UNCHANGED <<uptime, sends>>
    /\ config' = EmptyKubeconfig
    /\ UNCHANGED <<qvars, runs, xvars, hvars>>

\* cmd.Run() and the choice of the result
UptimeRun ==
    /\ upc = "run"
    /\ \E runFailed \in BOOLEAN, stdout \in {"", "up 2 days"}, stderr \in {"", "warning"} :
          sendResult(commandResult(runFailed, stdout, stderr))
    /\ UNCHANGED <<qvars, runs, xvars, hvars, config, hostName>>

ServeNext ==
    ServeLaunch \/ ServeGet \/ ServeReadBody \/ ServeReceive \/ ServeTimeout \/ ServeRender

UptimeNext == UptimeReadConfig \/ UptimeLookup \/ UptimeRun \/ ServeReceive

Next ==
    \/ ServeLaunch
    \/ ServeGet
    \/ ServeReadBody
    \/ ServeReceive
    \/ ServeTimeout
    \/ ServeRender
    \/ UptimeReadConfig
    \/ UptimeLookup
    \/ UptimeRun

Spec == Init /\ [][Next]_vars

\* the scheduler runs every goroutine that can take a step, and the timer of
\* the select fires
LiveSpec == Spec /\ WF_vars(ServeNext) /\ WF_vars(UptimeNext)

\* ------------------------------------------------------------------------
\* Concurrent requests: one ServeHTTP call and one uptimeAsync goroutine each
\* ------------------------------------------------------------------------

Requests == 1..NumRequests

\* the metrics texts the endpoint serves to concurrent requests: one with
\* client a, and one with client b and then less of client a
ScrapeA == JoinLines(<<LineHelpTarget, LineA3>>)

ScrapeBA == JoinLines(<<LineHelpTarget, LineB3, LineA2>>)

MultiTexts == {ScrapeA, ScrapeBA}

\* each of these texts with each list quantify and sort.Sort may give for it
MultiScrapes ==
    UNION {{[text |-> t, ranked |-> l] : l \in rankedOutcomes(t)} : t \in MultiTexts}

\* the kubeconfigs of concurrent requests: one that resolves to a host and one
\* whose cluster has no body
MultiConfigs ==
    {[CurrentContext |-> <<"a">>,
      Contexts |-> <<[Name |-> <<"a">>, Context |-> ContextInfo(<<"c">>)]>>,
      Clusters |-> <<[Name |-> <<"c">>, Cluster |-> ClusterInfo(srv)]>>] :
        srv \in {<<"s", ":", "/", "/", "h", ":", "1">>}}
    \cup
    {[CurrentContext |-> <<"a">>,
      Contexts |-> <<[Name |-> <<"a">>, Context |-> ContextInfo(<<"c">>)]>>,
      Clusters |-> <<[Name |-> <<"c">>, Cluster |-> NilClusterInfo]>>]}

\* a ServeHTTP call that has not started, and a goroutine that does not exist
NewHandler ==
    [pc |-> "start", ch |-> 0, data |-> <<>>, quantifiedData |-> <<>>,
     response |-> <<>>, receivedFrom |-> {}]

NoRoutine == [pc |-> "idle", ch |-> 0, uptime |-> NoUptime]

MInit ==
    /\ data = <<>>
    /\ QIdle
    /\ runs = <<>>
    /\ OIdle
    /\ PIdle
    /\ handlers = [r \in Requests |-> NewHandler]
    /\ routines = [r \in Requests |-> NoRoutine]
    /\ nextChan = 0
    /\ HIdle

\* a nil dereference in any goroutine ends the whole process
crashedAny == \E g \in Requests : routines[g].pc = "panic"

\* one channel for all the calls, as a field of the handler would be
sharedChan(made) == 1

\* make(chan *uptimeResult): a channel no other call holds
makeChan(made) == made + 1

\* uptimeResultChan := make(chan *uptimeResult); go uptimeAsync(h.kubeconfig,
\* uptimeResultChan)
MultiLaunch(r) ==
    /\ handlers[r].pc = "start"
    /\ ~crashedAny
    /\ handlers' = [handlers EXCEPT ![r].pc = "get", ![r].ch = makeChan(nextChan)]
    /\ routines' = [routines EXCEPT ![r].pc = "run", ![r].ch = makeChan(nextChan)]
    /\ nextChan' = nextChan + 1
    /\ UNCHANGED <<qvars, runs, ovars, pvars, hvars, uvars>>

\* http.Get and ioutil.ReadAll; on success WriteHeader, quantify, sort.Sort
\* and the uptime header line
MultiFetch(r) ==
    /\ handlers[r].pc = "get"
    /\ ~crashedAny
    /\ \/ handlers' = [handlers EXCEPT
              ![r].pc = "done",
              ![r].response = Append(@, ResponseLine("error", "get"))]
       \/ \E scrape \in MultiScrapes :
            handlers' = [handlers EXCEPT
              ![r].pc = "select",
              ![r].data = scrape.text,
              ![r].quantifiedData = scrape.ranked,
              ![r].response = Append(@, ResponseLine("header", "Master node uptime"))]
    /\ UNCHANGED <<qvars, runs, ovars, pvars, routines, nextChan, hvars, uvars>>

\* what the call writes from its select on: the line of the select, the
\* blank line and the client sections of its list
restOfResponse(h, selectLine) ==
    h.response \o <<selectLine, ResponseLine("blank", "")>>
               \o clientSections(h.quantifiedData)

\* the receive case of the select of call r, which completes the send of
\* goroutine g on the same channel; the call then writes the rest of its
\* response and returns
MultiReceive(r, g) ==
    /\ handlers[r].pc = "select"
    /\ routines[g].pc = "send"
    /\ routines[g].ch = handlers[r].ch
    /\ handlers' = [handlers EXCEPT
          ![r].pc = "done",
          ![r].response = restOfResponse(handlers[r], uptimeLine(routines[g].uptime)),
          ![r].receivedFrom = @ \cup {g}]
    /\ routines' = [routines EXCEPT ![g].pc = "done"]
    /\ UNCHANGED <<qvars, runs, ovars, pvars, nextChan, hvars, uvars>>

\* the time.After case of the select of call r: no sender on its channel; the
\* call then writes the rest of its response and returns
MultiTimeout(r) ==
    /\ handlers[r].pc = "select"
    /\ ~crashedAny
    /\ ~\E g \in Requests : routines[g].pc = "send" /\ routines[g].ch = handlers[r].ch
    /\ handlers' = [handlers EXCEPT
          ![r].pc = "done",
          ![r].response = restOfResponse(handlers[r],
                ResponseLine("timeout", "timed out fetching uptime information"))]
    /\ UNCHANGED <<qvars, runs, ovars, pvars, routines, nextChan, hvars, uvars>>

\* uptimeAsync of call g up to its send statement
MultiUptime(g) ==
    /\ routines[g].pc = "run"
    /\ ~crashedAny
    /\ \E cfg \in MultiConfigs, runFailed \in BOOLEAN :
          LET r == lookupHost(cfg)
          IN  IF r.kind = "panic"
              THEN routines' = [routines EXCEPT ![g].pc = "panic"]
              ELSE routines' = [routines EXCEPT
                      ![g].pc = "send",
                      ![g].uptime = IF r.kind = "err" THEN UptimeErr(r.err)
                                    ELSE commandResult(runFailed, "up 2 days", "")]
    /\ UNCHANGED <<qvars, runs, ovars, pvars, handlers, nextChan, hvars, uvars>>

MNext ==
    \E r \in Requests :
        \/ MultiLaunch(r)
        \/ MultiFetch(r)
        \/ \E g \in Requests : MultiReceive(r, g)
        \/ MultiTimeout(r)
        \/ MultiUptime(r)

SpecMulti == MInit /\ [][MNext]_vars

\* ------------------------------------------------------------------------
\* Properties of the ranking (checked under SpecRank)
\* ------------------------------------------------------------------------

\* C6 (as claimed): two runs of quantify and sort.Sort on the same text yield
\* the same sequence of clients.
C6_RankingDeterministic ==
    Len(runs) = 2 => runs[1] = runs[2]

\* C11: the list of every run (each run is the last one when it is made) is
\* ordered by totalReqCount descending (each entry's total is at least the
\* next one's) and lists each entry of the map that quantify built exactly
\* once.
C11_SortedDescending ==
    Len(runs) >= 1 =>
        LET l == runs[Len(runs)]
            m == quantifyMap(data)
        IN  /\ \A i \in 1..(Len(l) - 1) : l[i].totalReqCount >= l[i + 1].totalReqCount
            /\ Len(l) = Cardinality(DOMAIN m)
            /\ \A c \in DOMAIN m : \E i \in 1..Len(l) : l[i] = m[c]

\* C11 witness: two runs are done and the first list holds entries of
\* different totals.
C11_Witness ==
    /\ Len(runs) = 2
    /\ Len(runs[1]) >= 2
    /\ runs[1][1].totalReqCount > runs[1][Len(runs[1])].totalReqCount

\* ------------------------------------------------------------------------
\* quantify on a text and on the same text with its section reordered
\* ------------------------------------------------------------------------

\* the lines a section of the reordering texts is made of
SectionPool ==
    {LineType, LineA3, LineA2, LineB3, LineNoClient, LineBadCount, LineNoCount}

\* a data line, the target "# HELP" line, MaxSectionLines lines of section,
\* another "# HELP" line and a data line after it
SectionTexts ==
    {JoinLines(<<LineA2, LineHelpTarget>> \o sec \o <<LineHelpOther, LineB3>>) :
        sec \in [1..MaxSectionLines -> SectionPool]}

\* the line sequences that differ from ls by a permutation of the lines of
\* the section
SectionPermutations(ls) ==
    LET s == SectionStart(ls)
        e == SectionEnd(ls)
    IN  {SubSeq(ls, 1, Min({s, Len(ls)})) \o p \o SubSeq(ls, e, Len(ls)) :
            p \in SeqPermutations(SubSeq(ls, s + 1, e - 1))}

OInit ==
    /\ data \in SectionTexts
    /\ QIdle
    /\ runs = <<>>
    /\ shuffled = <<>>
    /\ firstReqs = <<>>
    /\ secondReqs = <<>>
    /\ opc = "first"
    /\ PIdle
    /\ MIdle
    /\ HIdle

\* quantify(data)
OrderFirst ==
    /\ opc = "first"
    /\ firstReqs' = quantifyMap(data)
    /\ opc' = "shuffle"
    /\ UNCHANGED <<qvars, runs, shuffled, secondReqs, pvars, mvars, hvars, uvars>>

\* the endpoint serves the lines of the section in another order; the text
\* ends with a newline, so the last element of the split is the empty line
OrderShuffle ==
    /\ opc = "shuffle"
    /\ \E ls \in SectionPermutations(Split(data, NewLine)) :
          shuffled' = JoinLines(SubSeq(ls, 1, Len(ls) - 1))
    /\ opc' = "second"
    /\ UNCHANGED <<qvars, runs, firstReqs, secondReqs, pvars, mvars, hvars, uvars>>

\* quantify(shuffled)
OrderSecond ==
    /\ opc = "second"
    /\ secondReqs' = quantifyMap(shuffled)
    /\ opc' = "done"
    /\ UNCHANGED <<qvars, runs, shuffled, firstReqs, pvars, mvars, hvars, uvars>>

ONext == OrderFirst \/ OrderShuffle \/ OrderSecond

SpecOrder == OInit /\ [][ONext]_vars

\* the client names of a map with their totals
MapTotals(m) == {<<c, m[c].totalReqCount>> : c \in DOMAIN m}

\* C12: for every permutation of the lines of the section, quantify builds
\* the same client names with the same totals as on the text itself.
C12_TotalsOrderIndependent ==
    opc = "done" => MapTotals(secondReqs) = MapTotals(firstReqs)

\* C12 witness: both runs are done, the order of the text was changed, and in
\* the section two lines of one client, with different counters, stand around
\* a line of another client.
C12_Witness ==
    /\ opc = "done"
    /\ shuffled # data
    /\ LET ls == Split(data, NewLine)
       IN  \E i, j, k \in (SectionStart(ls) + 1)..(SectionEnd(ls) - 1) :
              /\ i < j /\ j < k
              /\ IsValidRecord(ls[i]) /\ IsValidRecord(ls[j]) /\ IsValidRecord(ls[k])
              /\ parseLine(ls[i]).req.clientName = parseLine(ls[k]).req.clientName
              /\ parseLine(ls[i]).req.clientName # parseLine(ls[j]).req.clientName
              /\ parseLine(ls[i]).req.totalReqCount # parseLine(ls[k]).req.totalReqCount

\* ------------------------------------------------------------------------
\* parseLine on one line, and quantify on a section of that one line
\* ------------------------------------------------------------------------

KeyClient == SubSeq(Client, 1, Len(Client) - 1)

KeyResource == SubSeq(Resource, 1, Len(Resource) - 1)

KeyVerb == SubSeq(Verb, 1, Len(Verb) - 1)

\* label tokens as <<key, value>>: client=a, client=a=b (a value that holds
\* a '='), resource=p, verb=g and k=v (a key parseLine does not know)
LabelTokens ==
    {<<KeyClient, <<"a">>>>, <<KeyClient, <<"a", "=", "b">>>>,
     <<KeyResource, <<"p">>>>, <<KeyVerb, <<"g">>>>, <<<<"k">>, <<"v">>>>}

\* the label lists of a line: up to MaxLabels tokens, no key twice
LabelLists ==
    {ls \in SeqsUpTo(LabelTokens, MaxLabels) :
        \A i, j \in 1..Len(ls) : ls[i][1] = ls[j][1] => i = j}

\* counters that fit 32 bits: 3, 12 and 2147483647
SmallCounters ==
    {<<"3">>, <<"1", "2">>, <<"2", "1", "4", "7", "4", "8", "3", "6", "4", "7">>}

\* a counter above 2^31 - 1: 2147483648
LargeCounters == {<<"2", "1", "4", "7", "4", "8", "3", "6", "4", "8">>}

Counters == SmallCounters \cup LargeCounters

\* key=value,key=value,...
RECURSIVE JoinLabels(_)
JoinLabels(ls) ==
    IF ls = <<>> THEN <<>>
    ELSE Head(ls)[1] \o <<"=">> \o Head(ls)[2]
         \o (IF Len(ls) > 1 THEN Comma ELSE <<>>) \o JoinLabels(Tail(ls))

\* m{key=value,...} counter
MetricLine(ls, c) == <<"m", "{">> \o JoinLabels(ls) \o <<"}", " ">> \o c

PInit ==
    /\ data = <<>>
    /\ QIdle
    /\ runs = <<>>
    /\ OIdle
    /\ labels \in LabelLists
    /\ counter \in Counters
    /\ line = MetricLine(labels, counter)
    /\ parsed = ParseFail("")
    /\ lineReqs = <<>>
    /\ ppc = "parse"
    /\ MIdle
    /\ HIdle

\* req, err := parseLine(line)
ParseLine ==
    /\ ppc = "parse"
    /\ parsed' = parseLine(line)
    /\ ppc' = "quantify"
    /\ UNCHANGED <<qvars, runs, ovars, labels, counter, line, lineReqs, mvars, hvars, uvars>>

\* quantify on the target "# HELP" line followed by the line
ParseQuantify ==
    /\ ppc = "quantify"
    /\ lineReqs' = quantifyMap(JoinLines(<<LineHelpTarget, line>>))
    /\ ppc' = "done"
    /\ UNCHANGED <<qvars, runs, ovars, labels, counter, line, parsed, mvars, hvars, uvars>>

PNext == ParseLine \/ ParseQuantify

SpecParse == PInit /\ [][PNext]_vars

\* the label list holds a token of that key
HasKey(ls, key) == \E i \in 1..Len(ls) : ls[i][1] = key

\* the value of the token of that key, empty when there is none
ValueOf(ls, key) ==
    IF HasKey(ls, key)
    THEN ls[CHOOSE i \in 1..Len(ls) : ls[i][1] = key][2]
    ELSE <<>>

\* the decimal digits of a natural number
RECURSIVE DecimalOf(_)
DecimalOf(n) ==
    IF n < 10 THEN <<Digits[n + 1]>>
    ELSE DecimalOf(n \div 10) \o <<Digits[(n % 10) + 1]>>

\* parseLine has returned
Parsed == ppc \in {"quantify", "done"}

\* the record holds the client, resource and verb values of the label list
HoldsLabels(req, ls) ==
    /\ req.clientName = ValueOf(ls, KeyClient)
    /\ req.resources = (IF HasKey(ls, KeyResource) THEN <<ValueOf(ls, KeyResource)>> ELSE <<>>)
    /\ req.verbs = (IF HasKey(ls, KeyVerb) THEN <<ValueOf(ls, KeyVerb)>> ELSE <<>>)

\* C14: for every line m{labels} counter, parseLine returns a record that
\* holds exactly the client, resource and verb values of the labels and the
\* counter; the record is then a function of the set of labels, the same for
\* every order of them, and labels of other keys change nothing.
C14_RecordHoldsLabels ==
    Parsed =>
        /\ ~parsed.isNil
        /\ HoldsLabels(parsed.req, labels)
        /\ DecimalOf(parsed.req.totalReqCount) = counter

\* C16: a label token is split at its first '=' only: the value of each
\* client, resource and verb label is kept whole in the record, also when
\* it holds a '='.
C16_ValueKeptWhole ==
    (Parsed /\ ~parsed.isNil) => HoldsLabels(parsed.req, labels)

\* C17: a line whose counter is above 2^31 - 1 is parsed, and quantify adds
\* the full value to the total of its client.
C17_LargeCounterAdded ==
    (ppc = "done" /\ counter \in LargeCounters) =>
        /\ ~parsed.isNil
        /\ HasKey(labels, KeyClient) =>
              \E c \in DOMAIN lineReqs :
                  DecimalOf(lineReqs[c].totalReqCount) = counter

\* the request of line i when it is a valid data line of the section (s, e)
\* for client c, the empty request otherwise
RequestOf(ls, i, s, e, c) ==
    IF s < i /\ i < e /\ IsDataLine(ls[i])
    THEN LET p == parseLine(ls[i])
         IN  IF ~p.isNil /\ p.req.clientName = c THEN p.req ELSE NewApiserverReq
    ELSE NewApiserverReq

\* the resources, and the verbs, of the valid lines of client c among the
\* first n lines, in line order
RECURSIVE ResourcesInOrder(_, _, _, _, _)
ResourcesInOrder(ls, n, s, e, c) ==
    IF n = 0 THEN <<>>
    ELSE ResourcesInOrder(ls, n - 1, s, e, c) \o RequestOf(ls, n, s, e, c).resources

RECURSIVE VerbsInOrder(_, _, _, _, _)
VerbsInOrder(ls, n, s, e, c) ==
    IF n = 0 THEN <<>>
    ELSE VerbsInOrder(ls, n - 1, s, e, c) \o RequestOf(ls, n, s, e, c).verbs

\* C13: in the list of every run (each run is the last one when it is made),
\* the resources and the verbs of each client are the resource and verb
\* values of that client's valid lines of the section, in line order,
\* duplicates kept.
C13_LabelsInLineOrder ==
    Len(runs) >= 1 =>
        LET ls == Split(data, NewLine)
            s  == SectionStart(ls)
            e  == SectionEnd(ls)
            l  == runs[Len(runs)]
        IN  \A i \in 1..Len(l) :
                /\ l[i].clientName # <<>>
                /\ l[i].resources = ResourcesInOrder(ls, e - 1, s, e, l[i].clientName)
                /\ l[i].verbs = VerbsInOrder(ls, e - 1, s, e, l[i].clientName)

\* C13 witness: the scenario of two lines of client a with counters 3 and 2,
\* resources p then n, verbs g then l, gives one entry of total 5.
C13_Witness ==
    /\ Len(runs) >= 1
    /\ runs[1] = <<[clientName |-> <<"a">>, totalReqCount |-> 5,
                    resources |-> << <<"p">>, <<"n">> >>,
                    verbs |-> << <<"g">>, <<"l">> >>]>>

\* ------------------------------------------------------------------------
\* Properties of a request (checked under Spec and LiveSpec)
\* ------------------------------------------------------------------------

\* C1 (as claimed): once uptimeAsync has reached its send, the send completes
\* and uptimeAsync returns.
C1_SendTerminates ==
    (upc = "send") ~> (upc = "done")

KindsOf(resp) == {resp[i].kind : i \in 1..Len(resp)}

\* C2: the handler receives at most once; once the select has taken the
\* timeout case the response holds the timeout line and holds neither the
\* result nor the error of uptimeAsync, and nothing was received.
C2_TimeoutOmitsLateResult ==
    /\ received <= 1
    /\ selected = "timeout" =>
          /\ "timeout" \in KindsOf(response)
          /\ "uptime" \notin KindsOf(response)
          /\ "uptimeError" \notin KindsOf(response)
          /\ received = 0

\* C2 witness: the handler took the timeout case and has returned, while
\* uptimeAsync has its result ready at the send.
C2_Witness ==
    /\ hpc = "done"
    /\ selected = "timeout"
    /\ upc = "send"

\* C3 (as claimed): no step of uptimeAsync crashes, every send carries a
\* result or an error, and a config with a current context, contexts and an
\* empty clusters list yields the 'no clusters found' error.
C3_UptimeNeverCrashes ==
    [][upc' # upc =>
          /\ upc' # "panic"
          /\ upc' = "send" => (uptime'.err # "" \/ uptime'.result # "")
          /\ (/\ upc = "lookup"
              /\ config.CurrentContext # <<>>
              /\ config.Contexts # <<>>
              /\ config.Clusters = <<>>)
                => (upc' = "send" /\ uptime'.err = "invalid kubeconfig: no clusters found")
      ]_vars

\* the requests of the client sections of a response, in order
RECURSIVE ClientReqs(_)
ClientReqs(resp) ==
    IF resp = <<>> THEN <<>>
    ELSE (IF Head(resp).kind = "client" THEN <<Head(resp).req>> ELSE <<>>)
         \o ClientReqs(Tail(resp))

\* C9: when ServeHTTP has returned, a failed fetch has given a 5xx status, an
\* error line and no client section; a fetch that succeeded has given a 2xx
\* status and the client sections of the whole ranked list, in its order,
\* whichever case the select took.
C9_StatusFollowsFetch ==
    hpc = "done" =>
        IF fetchErr # ""
        THEN /\ status \in 500..599
             /\ "error" \in KindsOf(response)
             /\ ClientReqs(response) = <<>>
        ELSE /\ status \in 200..299
             /\ selected \in {"receive", "timeout"}
             /\ quantifiedData \in rankedOutcomes(data)
             /\ ClientReqs(response) = quantifiedData

\* C9 witness: the fetch succeeded, the select received an error from
\* uptimeAsync, and the response of two clients or more is complete.
C9_Witness ==
    /\ hpc = "done"
    /\ fetchErr = ""
    /\ selected = "receive"
    /\ uptime.err # ""
    /\ Len(quantifiedData) >= 2

\* C10 (as claimed): uptimeAsync never reaches a second send, and whenever
\* its run has ended (at its send, returned, or otherwise) it has reached
\* exactly one.
C10_ExactlyOneSend ==
    /\ sends <= 1
    /\ upc \in {"send", "done", "panic"} => sends = 1

\* the kinds of line the select writes
UptimeKinds == {"uptime", "uptimeError", "timeout"}

\* the response is finished: the header, one uptime line, the blank line and
\* then the client sections of the whole list, with no other uptime line
Finished ==
    /\ hpc = "done"
    /\ Len(response) = 3 + Len(quantifiedData)
    /\ response[1].kind = "header"
    /\ response[2].kind \in UptimeKinds
    /\ response[3].kind = "blank"
    /\ SubSeq(response, 4, Len(response)) = clientSections(quantifiedData)

\* C15 (as claimed): once the fetch has succeeded, the handler can always take
\* its next step until it has returned, whatever uptimeAsync does, so that it
\* finishes; and when it has returned, the response holds exactly one uptime
\* line (result, error or timeout placeholder), written before the client
\* sections, and the client sections.
C15_ResponseFinished ==
    /\ hpc \in {"select", "render"} => ENABLED ServeNext
    /\ (hpc = "done" /\ fetchErr = "") => Finished

\* the server resolved from a kubeconfig has the shape scheme://host:port
\* with a host and a port that are not empty
WellShaped(server) ==
    \E i, j \in 1..Len(server) :
        /\ i + 3 < j /\ j < Len(server)
        /\ SubSeq(server, i, i + 2) = <<":", "/", "/">>
        /\ \A k \in 1..(i - 1) : SubSeq(server, k, k + 2) # <<":", "/", "/">>
        /\ server[j] = ":"
        /\ \A k \in (i + 3)..(j - 1) : server[k] # ":"

\* the server of the cluster of the current context, as uptimeAsync finds it
ResolvedServer(cfg) ==
    findServer(cfg.Clusters, findContext(cfg.Contexts, cfg.CurrentContext).ctx).clusterName

\* C18 (as claimed): the step from the lookup to the run of the remote
\* command is only taken for a server of the shape scheme://host:port, and
\* the command is only ever run with a host name that is not empty.
C18_CommandOnlyForWellShaped ==
    [][(upc = "lookup" /\ upc' = "run") =>
          (WellShaped(ResolvedServer(config)) /\ hostName' # <<>>)]_vars

\* the client names and totals that the sections of a response show, in order
SectionTotals(resp) ==
    LET l == ClientReqs(resp)
    IN  [i \in 1..Len(l) |-> <<l[i].clientName, l[i].totalReqCount>>]

\* the client names and totals each text of the concurrent requests holds,
\* read off its lines
TotalsOfText(text) ==
    IF text = ScrapeA THEN << <<<<"a">>, 3>> >>
    ELSE IF text = ScrapeBA THEN << <<<<"b">>, 3>>, <<<<"a">>, 2>> >>
    ELSE <<>>

\* C19: under every interleaving of the requests, a call of ServeHTTP receives
\* only from the goroutine it started and the uptime or error line it writes
\* is the result of that goroutine; the client sections it writes show the
\* clients and totals of the text it fetched itself, and none before it has
\* passed its select.
C19_RequestsIndependent ==
    \A r \in Requests :
        LET h == handlers[r]
        IN  /\ h.receivedFrom \subseteq {r}
            /\ \A i \in 1..Len(h.response) :
                  h.response[i].kind \in {"uptime", "uptimeError"} =>
                      h.response[i] = uptimeLine(routines[r].uptime)
            /\ SectionTotals(h.response) =
                  (IF h.pc = "done" THEN TotalsOfText(h.data) ELSE <<>>)

\* C19 witness: two calls have returned, each after it received the result of
\* its own goroutine, with different results and different texts, and the
\* second goroutine had sent before the first call received.
C19_Witness ==
    /\ handlers[1].pc = "done" /\ handlers[2].pc = "done"
    /\ handlers[1].receivedFrom = {1} /\ handlers[2].receivedFrom = {2}
    /\ routines[1].uptime # routines[2].uptime
    /\ handlers[1].data # handlers[2].data
    /\ ClientReqs(handlers[1].response) # <<>>
    /\ ClientReqs(handlers[2].response) # <<>>
====
